---- MODULE Spec2Model ----
(***************************************************************************)
(* Client-side data-access and view-state layer of the recall dashboard.   *)
(*                                                                         *)
(*   SpecFeed    TimelinePage: the paginated entry feed (initial load on   *)
(*               mount, loadMore from the scroll listener and the button). *)
(*   SpecSearch  useSearch + SearchPage: the search controller and the     *)
(*               form that drives it.                                      *)
(*   SpecStatus  useStatus + Header: the recorder status poller (fetch on  *)
(*               mount, a 30 s interval, manual refetch, unmount).         *)
(*   SpecModal   CardGrid + ScreenshotModal: selecting a card, the modal,  *)
(*               its Escape listener and the scroll lock on the body.      *)
(*   SpecTransport  the api client: fetchJson and the endpoint functions   *)
(*               the controllers call.                                     *)
(*   SpecStats   useStats + StatsPage: the statistics fetch and the bars   *)
(*               of the top applications.                                  *)
(*   SpecRoutes  App: the routed pages, each with a Header of its own, and *)
(*               the polling intervals of their useStatus instances.       *)
(*                                                                         *)
(* React state is modelled by one variable per useState cell.  A handler   *)
(* runs to its first await as one step; the continuation after the await   *)
(* (try/catch/finally) is the step that settles the request.  The render   *)
(* that follows a step is committed before the next event is delivered, so *)
(* handlers read the state of the latest step.  A setter called after the  *)
(* component was unmounted changes no rendered state; the call itself is   *)
(* recorded in the step's history record.                                  *)
(***************************************************************************)
EXTENDS Integers, Sequences, FiniteSets, TLC

\* ------------------------------------------------------------------ bounds
\* Longest page of entries a response carries.
MaxPageLen == 2
\* Requests the timeline page issues in one run (the mount load included).
MaxFetches == 3
\* Search requests issued in one run.
MaxSearches == 2
\* Status requests issued in one run (mount, interval ticks, refetch).
MaxStatusFetches == 3
\* Poll intervals the clock runs through.
MaxPolls == 2
\* Invocations of the api client in one run.
MaxCalls == 2
\* Stats requests issued in one run (the mount fetch included).
MaxStatsFetches == 2
\* Longest apps list a stats response carries.
MaxApps == 2
\* Header instances mounted in one run.
MaxMounts == 4

\* Entries are opaque, immutable records; two distinguishable ones suffice to
\* tell replace from append and to observe order.
EntryUniverse == {"A", "B"}

\* ------------------------------------------------------- program constants
\* TimelinePage.tsx:57  scrollHeight - scrollTop - clientHeight < 200
ScrollThreshold == 200

\* useStats.ts:48  setInterval(fetchStatus, 30000)
PollInterval == 30000

\* StatsPage.tsx:157  stats.apps.slice(0, 10)
TopApps == 10

\* Distances from the bottom of the scroll container a scroll event may carry.
Distances == {0, ScrollThreshold - 1, ScrollThreshold, ScrollThreshold + 300}

\* Strings are sequences of characters.  The inputs cover the empty string, blank
\* strings, and queries with and without surrounding white space.
Strings ==
  { <<>>, <<" ">>, <<" ", " ">>, <<"a">>, <<" ", "a", " ">>, <<"b">> }

VARIABLES
  \* TimelinePage.tsx useState cells
  entries, loading, page, hasMore, loadingMore,
  \* TimelinePage: lifecycle and the getEntries requests not yet settled
  feedPhase, feedInflight, feedIssued,
  \* history: the last feed step and the state it started from
  feedLast, feedEndedAt,
  \* useSearch useState cells (loading is searchLoading here)
  results, searchLoading, error, query,
  \* SearchPage useState cell
  inputValue,
  \* useSearch: the searchEntries requests not yet settled
  searchInflight, searchIssued,
  \* history: the last search step and the state it started from
  searchLast,
  \* useStatus useState cells (loading is statusLoading here)
  status, statusLoading,
  \* Header: lifecycle of the component that owns the hook
  statusPhase,
  \* useStatus: the interval of the effect (registered, next due time)
  statusTimer, nextTick,
  \* the clock, in milliseconds
  now,
  \* useStatus: the getStatus requests not yet settled, the number issued, and
  \* the number of those the interval issued
  statusInflight, statusIssued, statusTicks,
  \* history: the last status step and the state it started from
  statusLast, mountedAt,
  \* CardGrid: lifecycle, props and its useState cell
  gridPhase, gridEntries, gridLoading, selectedEntry,
  \* the document: keydown listeners ScreenshotModal registered, and
  \* document.body.style.overflow
  escapeListeners, bodyOverflow,
  \* ScreenshotModal: whether the effect now in force registered its listener
  effectRegistered,
  \* history: the last modal step and the state it started from
  modalLast,
  \* api client: one record per invocation of an endpoint function, holding the
  \* URLs it passed to fetch, the response it received and how it settled
  transportCalls,
  \* useStats useState cells (loading is statsLoading, error is statsError)
  stats, statsLoading, statsError,
  \* StatsPage: lifecycle; useStats: the getStats requests not yet settled, the
  \* number issued, and the number of refetch() calls
  statsPhase, statsInflight, statsIssued, statsRefetches,
  \* history: the last stats step and the state it started from
  statsLast,
  \* App: the route shown ("none" before the app is opened and after it is
  \* closed)
  route,
  \* useStatus instances now mounted, each with the interval id its effect
  \* holds; the intervals registered with the browser; instances created so far
  pollerInstances, pollerTimers, pollerCreated,
  \* history: the last routing step and the state it started from
  routeLast

feedVars == <<entries, loading, page, hasMore, loadingMore,
              feedPhase, feedInflight, feedIssued, feedLast, feedEndedAt>>

searchVars == <<results, searchLoading, error, query, inputValue,
                searchInflight, searchIssued, searchLast>>

statusVars == <<status, statusLoading, statusPhase, statusTimer, nextTick, now,
                statusInflight, statusIssued, statusTicks, statusLast, mountedAt>>

modalVars == <<gridPhase, gridEntries, gridLoading, selectedEntry,
               escapeListeners, bodyOverflow, effectRegistered, modalLast>>

transportVars == <<transportCalls>>

statsVars == <<stats, statsLoading, statsError, statsPhase, statsInflight,
               statsIssued, statsRefetches, statsLast>>

routeVars == <<route, pollerInstances, pollerTimers, pollerCreated, routeLast>>

vars == <<feedVars, searchVars, statusVars, modalVars, transportVars, statsVars,
          routeVars>>

\* What a step of one component leaves alone: the state of the others.
outsideFeed ==
  <<searchVars, statusVars, modalVars, transportVars, statsVars, routeVars>>
outsideSearch ==
  <<feedVars, statusVars, modalVars, transportVars, statsVars, routeVars>>
outsideStatus ==
  <<feedVars, searchVars, modalVars, transportVars, statsVars, routeVars>>
outsideModal ==
  <<feedVars, searchVars, statusVars, transportVars, statsVars, routeVars>>
outsideTransport ==
  <<feedVars, searchVars, statusVars, modalVars, statsVars, routeVars>>
outsideStats ==
  <<feedVars, searchVars, statusVars, modalVars, transportVars, routeVars>>
outsideRoutes ==
  <<feedVars, searchVars, statusVars, modalVars, transportVars, statsVars>>

\* ------------------------------------------------------------ data helpers
RECURSIVE SeqsUpTo(_, _)
SeqsUpTo(S, n) ==
  IF n = 0 THEN {<<>>}
  ELSE LET shorter == SeqsUpTo(S, n - 1)
       IN shorter \cup {Append(s, x) : s \in {t \in shorter : Len(t) = n - 1}, x \in S}

\* A PaginatedResponse as far as the page reads it: entries and has_more.
PaginatedResponse ==
  [entries : SeqsUpTo(EntryUniverse, MaxPageLen), has_more : BOOLEAN]

NoResponse == [entries |-> <<>>, has_more |-> FALSE]
NoRequest == [id |-> 0, pageNum |-> 0, append |-> FALSE,
              pageAtCall |-> 0, entriesAtCall |-> <<>>]

\* The feed state a step starts from.
FeedSnapshot ==
  [entries |-> entries, loading |-> loading, page |-> page, hasMore |-> hasMore,
   loadingMore |-> loadingMore, issued |-> feedIssued, inflight |-> feedInflight]

FeedStep(kind, req, resp) ==
  [kind |-> kind, pre |-> FeedSnapshot, req |-> req, resp |-> resp]

\* ------------------------------------------------------------ TimelinePage
FeedInit ==
  /\ entries = <<>>
  /\ loading = TRUE
  /\ page = 1
  /\ hasMore = FALSE
  /\ loadingMore = FALSE
  /\ feedPhase = "created"
  /\ feedInflight = {}
  /\ feedIssued = 0
  /\ feedLast = [kind |-> "init",
                 pre |-> [entries |-> <<>>, loading |-> TRUE, page |-> 1,
                          hasMore |-> FALSE, loadingMore |-> FALSE,
                          issued |-> 0, inflight |-> {}],
                 req |-> NoRequest, resp |-> NoResponse]
  /\ feedEndedAt = -1

\* Variant: every fetch raises the first-page flag, whatever the page number.
FetchEntriesStart_WrongFlag(pageNum, append) ==
  /\ loading' = TRUE /\ UNCHANGED loadingMore
  /\ feedIssued' = feedIssued + 1
  /\ feedInflight' = feedInflight \cup
        {[id |-> feedIssued + 1, pageNum |-> pageNum, append |-> append,
          pageAtCall |-> page, entriesAtCall |-> entries]}

\* fetchEntries(pageNum, append) up to its await: the loading flag and the request.
FetchEntriesStart(pageNum, append) ==
  /\ IF pageNum = 1
       THEN loading' = TRUE /\ UNCHANGED loadingMore
       ELSE loadingMore' = TRUE /\ UNCHANGED loading
  /\ feedIssued' = feedIssued + 1
  /\ feedInflight' = feedInflight \cup
        {[id |-> feedIssued + 1, pageNum |-> pageNum, append |-> append,
          pageAtCall |-> page, entriesAtCall |-> entries]}

\* The mount effect: fetchEntries(1).
FeedMount ==
  /\ feedPhase = "created"
  /\ feedPhase' = "mounted"
  /\ FetchEntriesStart(1, FALSE)
  /\ feedLast' = FeedStep("mount", NoRequest, NoResponse)
  /\ UNCHANGED <<entries, page, hasMore, feedEndedAt>>
  /\ UNCHANGED outsideFeed

\* Variants: the guard forgets one of its two conjuncts.
CanLoadMore_IgnoresLoadingMore == hasMore
CanLoadMore_IgnoresHasMore == ~loadingMore

\* !loadingMore && hasMore: the guard of loadMore (line 43), repeated by
\* handleScroll (line 57) and by the render condition of the button (line 89).
CanLoadMore == ~loadingMore /\ hasMore

\* loadMore(): guarded; bumps page and fetches the next page in append mode.
LoadMore ==
  IF CanLoadMore
    THEN /\ page' = page + 1
         /\ FetchEntriesStart(page + 1, TRUE)
         /\ UNCHANGED <<entries, hasMore>>
    ELSE UNCHANGED <<entries, loading, page, hasMore, loadingMore,
                     feedInflight, feedIssued>>

\* handleScroll for a scroll event dist units above the bottom.
HandleScroll(dist) ==
  IF dist < ScrollThreshold /\ CanLoadMore
    THEN LoadMore
    ELSE UNCHANGED <<entries, loading, page, hasMore, loadingMore,
                     feedInflight, feedIssued>>

FeedScroll ==
  /\ feedPhase = "mounted"
  /\ \E dist \in Distances :
       /\ feedIssued < MaxFetches \/ ~(dist < ScrollThreshold /\ CanLoadMore)
       /\ HandleScroll(dist)
       /\ feedLast' = FeedStep(IF dist < ScrollThreshold THEN "scrollNear" ELSE "scrollFar",
                               NoRequest, NoResponse)
  /\ UNCHANGED <<feedPhase, feedEndedAt>>
  /\ UNCHANGED outsideFeed

\* The Load More button is rendered only while hasMore && !loadingMore.
FeedClickLoadMore ==
  /\ feedPhase = "mounted"
  /\ feedIssued < MaxFetches
  /\ CanLoadMore
  /\ LoadMore
  /\ feedLast' = FeedStep("click", NoRequest, NoResponse)
  /\ UNCHANGED <<feedPhase, feedEndedAt>>
  /\ UNCHANGED outsideFeed

\* Variant: the new page is put in front of the accumulated entries.
ApplyEntries_Prepends(req, data) ==
  IF req.append THEN data.entries \o entries ELSE data.entries

\* try branch after the await: the response is applied.
ApplyEntries(req, data) ==
  IF req.append THEN entries \o data.entries ELSE data.entries

\* Variant: hasMore is inferred from a full page instead of read from has_more.
FetchEntriesOk_InfersHasMore(req, data) ==
  /\ entries' = IF req.append THEN entries \o data.entries ELSE data.entries
  /\ hasMore' = (Len(data.entries) = MaxPageLen)
  /\ loading' = FALSE
  /\ loadingMore' = FALSE

FetchEntriesOk(req, data) ==
  /\ entries' = ApplyEntries(req, data)
  /\ hasMore' = data.has_more
  /\ loading' = FALSE
  /\ loadingMore' = FALSE

\* Variant: a failed fetch resets the list.
FetchEntriesFail_ClearsEntries(req) ==
  /\ loading' = FALSE
  /\ loadingMore' = FALSE
  /\ entries' = <<>>
  /\ UNCHANGED hasMore

\* Variant: a failed fetch leaves the loadingMore flag up.
FetchEntriesFail_KeepsLoadingMore(req) ==
  /\ loading' = FALSE
  /\ UNCHANGED <<entries, hasMore, loadingMore>>

\* catch branch: console.error only; finally clears both flags.
FetchEntriesFail(req) ==
  /\ loading' = FALSE
  /\ loadingMore' = FALSE
  /\ UNCHANGED <<entries, hasMore>>

FeedSettleOk ==
  \E req \in feedInflight, data \in PaginatedResponse :
    /\ FetchEntriesOk(req, data)
    /\ feedInflight' = feedInflight \ {req}
    /\ feedLast' = FeedStep(IF req.append THEN "moreOk" ELSE "loadOk", req, data)
    /\ feedEndedAt' = IF feedEndedAt = -1 /\ ~data.has_more THEN feedIssued
                      ELSE feedEndedAt
    /\ UNCHANGED <<page, feedPhase, feedIssued>>
    /\ UNCHANGED outsideFeed

FeedSettleFail ==
  \E req \in feedInflight :
    /\ FetchEntriesFail(req)
    /\ feedInflight' = feedInflight \ {req}
    /\ feedLast' = FeedStep(IF req.append THEN "moreFail" ELSE "loadFail", req, NoResponse)
    /\ UNCHANGED <<page, feedPhase, feedIssued, feedEndedAt>>
    /\ UNCHANGED outsideFeed

FeedNext ==
  \/ FeedMount
  \/ FeedScroll
  \/ FeedClickLoadMore
  \/ FeedSettleOk
  \/ FeedSettleFail

\* --------------------------------------------------- useSearch / SearchPage
IsSpace(c) == c = " "

\* String.prototype.trim: white space is stripped from both ends.
RECURSIVE TrimStart(_)
TrimStart(str) ==
  IF str # <<>> /\ IsSpace(Head(str)) THEN TrimStart(Tail(str)) ELSE str

RECURSIVE TrimEnd(_)
TrimEnd(str) ==
  IF str # <<>> /\ IsSpace(str[Len(str)])
    THEN TrimEnd(SubSeq(str, 1, Len(str) - 1))
    ELSE str

Trim(str) == TrimEnd(TrimStart(str))

\* Variant: only the empty string counts as blank.
IsBlank_NoTrim(str) == str = <<>>

\* !searchQuery.trim(): the empty string is the only falsy string.
IsBlank(str) == Trim(str) = <<>>

\* The result lists the backend answers with: none, one, and the same two
\* results in either order.
ResultLists == { <<>>, <<"A">>, <<"A", "B">>, <<"B", "A">> }

\* A SearchResponse as far as the hook reads it: results, in backend order.
SearchResponse == [results : ResultLists]

NoSearchResponse == [results |-> <<>>]
NoSearchRequest == [id |-> 0, q |-> <<>>, otherSearch |-> FALSE, cleared |-> FALSE]

SearchSnapshot ==
  [results |-> results, loading |-> searchLoading, error |-> error, query |-> query,
   inputValue |-> inputValue, issued |-> searchIssued,
   pending |-> Cardinality(searchInflight)]

\* The snapshot of the initial state; also carried by steps that touch nothing
\* of the hook.
BlankSnapshot ==
  [results |-> <<>>, loading |-> FALSE, error |-> "none", query |-> <<>>,
   inputValue |-> <<>>, issued |-> 0, pending |-> 0]

SearchStep(kind, q, req, resp) ==
  [kind |-> kind, q |-> q, pre |-> SearchSnapshot, req |-> req, resp |-> resp]

SearchInit ==
  /\ results = <<>>
  /\ searchLoading = FALSE
  /\ error = "none"
  /\ query = <<>>
  /\ inputValue = <<>>
  /\ searchInflight = {}
  /\ searchIssued = 0
  /\ searchLast = [kind |-> "init", q |-> <<>>,
                   pre |-> BlankSnapshot,
                   req |-> NoSearchRequest, resp |-> NoSearchResponse]

\* The requests in flight, each marked as having seen another search() call.
MarkOtherSearch(reqs) == {[r EXCEPT !.otherSearch = TRUE] : r \in reqs}
\* The requests in flight, each marked as having seen a clear() call.
MarkCleared(reqs) == {[r EXCEPT !.cleared = TRUE] : r \in reqs}

\* search(searchQuery) up to its await.
Search(searchQuery) ==
  IF IsBlank(searchQuery)
    THEN /\ results' = <<>>
         /\ query' = <<>>
         /\ searchInflight' = MarkOtherSearch(searchInflight)
         /\ UNCHANGED <<searchLoading, error, searchIssued>>
    ELSE /\ searchLoading' = TRUE
         /\ error' = "none"
         /\ query' = searchQuery
         /\ searchIssued' = searchIssued + 1
         /\ searchInflight' = MarkOtherSearch(searchInflight) \cup
               {[id |-> searchIssued + 1, q |-> searchQuery,
                 otherSearch |-> searchInflight # {}, cleared |-> FALSE]}
         /\ UNCHANGED results

\* Variant: clear() leaves the error of an earlier search in place.
Clear_KeepsError ==
  /\ results' = <<>>
  /\ query' = <<>>
  /\ searchInflight' = MarkCleared(searchInflight)
  /\ UNCHANGED <<error, searchLoading, searchIssued>>

\* clear()
Clear ==
  /\ results' = <<>>
  /\ query' = <<>>
  /\ error' = "none"
  /\ searchInflight' = MarkCleared(searchInflight)
  /\ UNCHANGED <<searchLoading, searchIssued>>

\* Variant: the new results are added to the ones already shown.
SearchOk_Accumulates(req, data) ==
  /\ results' = results \o data.results
  /\ searchLoading' = FALSE
  /\ UNCHANGED <<error, query>>

\* Variant: a response is applied only if its request is the last one issued.
SearchOk_LatestIssuedWins(req, data) ==
  /\ results' = IF req.id = searchIssued THEN data.results ELSE results
  /\ searchLoading' = FALSE
  /\ UNCHANGED <<error, query>>

\* try branch after the await.
SearchOk(req, data) ==
  /\ results' = data.results
  /\ searchLoading' = FALSE
  /\ UNCHANGED <<error, query>>

\* Variant: a failed search keeps the results of the previous one.
SearchFail_KeepsResults(req) ==
  /\ error' = "error"
  /\ searchLoading' = FALSE
  /\ UNCHANGED <<results, query>>

\* catch branch, then finally.
SearchFail(req) ==
  /\ error' = "error"
  /\ results' = <<>>
  /\ searchLoading' = FALSE
  /\ UNCHANGED query

\* A consumer of the hook calls search(q).
SearchCall ==
  \E q \in Strings :
    /\ searchIssued < MaxSearches \/ IsBlank(q)
    /\ Search(q)
    /\ searchLast' = SearchStep("search", q, NoSearchRequest, NoSearchResponse)
    /\ UNCHANGED inputValue
    /\ UNCHANGED outsideSearch

\* The input's onChange.
SearchType ==
  \E v \in Strings :
    /\ v # inputValue
    /\ inputValue' = v
    /\ searchLast' = [kind |-> "type", q |-> v, pre |-> BlankSnapshot,
                       req |-> NoSearchRequest, resp |-> NoSearchResponse]
    /\ UNCHANGED <<results, searchLoading, error, query, searchInflight, searchIssued>>
    /\ UNCHANGED outsideSearch

\* SearchPage.handleSubmit: search(inputValue.trim()) unless the input is blank.
HandleSubmit ==
  IF Trim(inputValue) # <<>>
    THEN Search(Trim(inputValue))
    ELSE UNCHANGED <<results, searchLoading, error, query, searchInflight, searchIssued>>

SearchSubmit ==
  /\ searchIssued < MaxSearches \/ Trim(inputValue) = <<>>
  /\ HandleSubmit
  /\ searchLast' = SearchStep("submit", inputValue, NoSearchRequest, NoSearchResponse)
  /\ UNCHANGED inputValue
  /\ UNCHANGED outsideSearch

\* SearchPage.handleClear: the X button is rendered while the input is non-empty.
SearchClear ==
  /\ inputValue # <<>>
  /\ inputValue' = <<>>
  /\ Clear
  /\ searchLast' = SearchStep("clear", <<>>, NoSearchRequest, NoSearchResponse)
  /\ UNCHANGED outsideSearch

SearchSettleOk ==
  \E req \in searchInflight, data \in SearchResponse :
    /\ SearchOk(req, data)
    /\ searchInflight' = searchInflight \ {req}
    /\ searchLast' = SearchStep("searchOk", req.q, req, data)
    /\ UNCHANGED <<inputValue, searchIssued>>
    /\ UNCHANGED outsideSearch

SearchSettleFail ==
  \E req \in searchInflight :
    /\ SearchFail(req)
    /\ searchInflight' = searchInflight \ {req}
    /\ searchLast' = SearchStep("searchFail", req.q, req, NoSearchResponse)
    /\ UNCHANGED <<inputValue, searchIssued>>
    /\ UNCHANGED outsideSearch

SearchNext ==
  \/ SearchCall
  \/ SearchType
  \/ SearchSubmit
  \/ SearchClear
  \/ SearchSettleOk
  \/ SearchSettleFail

\* --------------------------------------------------------- useStatus / Header
\* A StatusResponse as far as the header reads it: recording and paused.
StatusResponse == [recording : BOOLEAN, paused : BOOLEAN]

NoStatusResponse == [recording |-> FALSE, paused |-> FALSE]
\* The status cell holds null or a StatusResponse: the empty sequence stands
\* for null, a one-element sequence for a response.
NoStatus == <<>>
SomeStatus(data) == <<data>>
NoStatusRequest == [id |-> 0, origin |-> "none"]

\* The clock advances in steps of half a poll interval.
TimeStep == PollInterval \div 2
MaxTime == MaxPolls * PollInterval

StatusSnapshot ==
  [status |-> status, loading |-> statusLoading, phase |-> statusPhase,
   timer |-> statusTimer, issued |-> statusIssued,
   pending |-> Cardinality(statusInflight)]

\* writes: the state setters the step called.
StatusStep(kind, req, resp, writes) ==
  [kind |-> kind, req |-> req, resp |-> resp, writes |-> writes,
   pre |-> StatusSnapshot]

StatusInit ==
  /\ status = NoStatus
  /\ statusLoading = TRUE
  /\ statusPhase = "created"
  /\ statusTimer = FALSE
  /\ nextTick = 0
  /\ now = 0
  /\ statusInflight = {}
  /\ statusIssued = 0
  /\ statusTicks = 0
  /\ mountedAt = 0
  /\ statusLast = [kind |-> "init", req |-> NoStatusRequest,
                   resp |-> NoStatusResponse, writes |-> {},
                   pre |-> [status |-> NoStatus, loading |-> TRUE,
                            phase |-> "created", timer |-> FALSE,
                            issued |-> 0, pending |-> 0]]

\* The request fetchStatus issues, tagged with who called it.
StatusRequest(origin) == [id |-> statusIssued + 1, origin |-> origin]

\* fetchStatus() up to the await: getStatus() is called, no state is written.
FetchStatusStart(origin) ==
  /\ statusIssued' = statusIssued + 1
  /\ statusInflight' = statusInflight \cup {StatusRequest(origin)}
  /\ statusTicks' = IF origin = "tick" THEN statusTicks + 1 ELSE statusTicks
  /\ UNCHANGED <<status, statusLoading>>

\* A useState setter: the value is committed while the component is mounted
\* and dropped once it is unmounted.
SetState(cur, new) == IF statusPhase = "mounted" THEN new ELSE cur

\* Variant: a failed status fetch discards the status held so far.
FetchStatusFail_ClearsStatus ==
  /\ status' = SetState(status, NoStatus)
  /\ statusLoading' = SetState(statusLoading, FALSE)

\* try branch after the await, then finally.
FetchStatusOk(data) ==
  /\ status' = SetState(status, SomeStatus(data))
  /\ statusLoading' = SetState(statusLoading, FALSE)

\* catch branch (empty), then finally.
FetchStatusFail ==
  /\ statusLoading' = SetState(statusLoading, FALSE)
  /\ UNCHANGED status

\* Variant: the effect's cleanup leaves the interval registered.
StatusUnmountEffect_LeaksTimer ==
  /\ UNCHANGED <<statusTimer, nextTick>>

\* Cleanup of the effect: clearInterval(interval).
StatusUnmountEffect ==
  /\ statusTimer' = FALSE
  /\ UNCHANGED nextTick

\* Header mounts: the effect calls fetchStatus() and registers the interval.
StatusMount ==
  /\ statusPhase = "created"
  /\ statusIssued < MaxStatusFetches
  /\ statusPhase' = "mounted"
  /\ FetchStatusStart("mount")
  /\ statusTimer' = TRUE
  /\ nextTick' = now + PollInterval
  /\ mountedAt' = now
  /\ statusLast' = StatusStep("mount", StatusRequest("mount"), NoStatusResponse, {})
  /\ UNCHANGED now
  /\ UNCHANGED outsideStatus

\* The interval fires: the timer calls fetchStatus.  It fires for as long as
\* it is registered, whatever became of the component.
StatusTick ==
  /\ statusTimer
  /\ now = nextTick
  /\ statusIssued < MaxStatusFetches
  /\ FetchStatusStart("tick")
  /\ nextTick' = nextTick + PollInterval
  /\ statusLast' = StatusStep("tick", StatusRequest("tick"), NoStatusResponse, {})
  /\ UNCHANGED <<statusPhase, statusTimer, now, mountedAt>>
  /\ UNCHANGED outsideStatus

\* The Refresh button of the header: refetch().
StatusRefetch ==
  /\ statusPhase = "mounted"
  /\ statusIssued < MaxStatusFetches
  /\ FetchStatusStart("refetch")
  /\ statusLast' = StatusStep("refetch", StatusRequest("refetch"), NoStatusResponse, {})
  /\ UNCHANGED <<statusPhase, statusTimer, nextTick, now, mountedAt>>
  /\ UNCHANGED outsideStatus

\* A getStatus request resolves, mounted or not.
StatusSettleOk ==
  \E req \in statusInflight, data \in StatusResponse :
    /\ FetchStatusOk(data)
    /\ statusInflight' = statusInflight \ {req}
    /\ statusLast' = StatusStep("fetchOk", req, data, {"setStatus", "setLoading"})
    /\ UNCHANGED <<statusPhase, statusTimer, nextTick, now, statusIssued,
                   statusTicks, mountedAt>>
    /\ UNCHANGED outsideStatus

\* A getStatus request rejects, mounted or not.
StatusSettleFail ==
  \E req \in statusInflight :
    /\ FetchStatusFail
    /\ statusInflight' = statusInflight \ {req}
    /\ statusLast' = StatusStep("fetchFail", req, NoStatusResponse, {"setLoading"})
    /\ UNCHANGED <<statusPhase, statusTimer, nextTick, now, statusIssued,
                   statusTicks, mountedAt>>
    /\ UNCHANGED outsideStatus

\* Header unmounts: the cleanup of the effect runs.
StatusUnmount ==
  /\ statusPhase = "mounted"
  /\ statusPhase' = "unmounted"
  /\ StatusUnmountEffect
  /\ statusLast' = StatusStep("unmount", NoStatusRequest, NoStatusResponse, {})
  /\ UNCHANGED <<status, statusLoading, now, statusInflight, statusIssued,
                 statusTicks, mountedAt>>
  /\ UNCHANGED outsideStatus

\* Time passes.  A registered interval fires when it is due, so the clock does
\* not run past a due tick.
StatusAdvance ==
  /\ now + TimeStep <= MaxTime
  /\ statusTimer => now + TimeStep <= nextTick
  /\ now' = now + TimeStep
  /\ UNCHANGED <<status, statusLoading, statusPhase, statusTimer, nextTick,
                 statusInflight, statusIssued, statusTicks, statusLast,
                 mountedAt>>
  /\ UNCHANGED outsideStatus

\* Variant: the header looks at paused before recording.
StatusBucket_PausedFirst(st) ==
  IF st # NoStatus /\ st[1].paused THEN "paused"
  ELSE IF st # NoStatus /\ st[1].recording THEN "active"
  ELSE "inactive"

\* Header: status?.recording ? 'active' : status?.paused ? 'paused' : 'inactive'
StatusBucket(st) ==
  IF st # NoStatus /\ st[1].recording THEN "active"
  ELSE IF st # NoStatus /\ st[1].paused THEN "paused"
  ELSE "inactive"

\* What the StatusIndicator of the header is given.
HeaderBucket == StatusBucket(status)

StatusNext ==
  \/ StatusMount
  \/ StatusTick
  \/ StatusRefetch
  \/ StatusSettleOk
  \/ StatusSettleFail
  \/ StatusUnmount
  \/ StatusAdvance

\* ------------------------------------------------ CardGrid / ScreenshotModal
\* CardGrid renders its third branch, the cards and the ScreenshotModal, when
\* it is not loading and has entries; the other two branches return early.
GridBranch(phase, ents, load) == phase = "mounted" /\ ~load /\ ents # <<>>

\* ScreenshotModal is part of the tree.
ModalMounted == GridBranch(gridPhase, gridEntries, gridLoading)

\* ScreenshotModal renders its markup: isOpen and entry both come from
\* selectedEntry.
ModalVisible == ModalMounted /\ selectedEntry # "none"

\* document.body.style.overflow = 'hidden'
ScrollSuppressed == bodyOverflow = "hidden"

\* The part of the document the effect of ScreenshotModal works on.
Dom ==
  [listeners |-> escapeListeners, overflow |-> bodyOverflow,
   registered |-> effectRegistered]

\* Variant: the cleanup removes the listener and leaves the scroll lock.
ModalEffectCleanup_KeepsOverflow(dom) ==
  [listeners |-> dom.listeners - (IF dom.registered THEN 1 ELSE 0),
   overflow |-> dom.overflow, registered |-> FALSE]

\* Variant: the cleanup releases the scroll lock and leaves the listener.
ModalEffectCleanup_KeepsListener(dom) ==
  [listeners |-> dom.listeners, overflow |-> "unset", registered |-> FALSE]

\* Cleanup of the effect: removeEventListener takes away the handler this
\* effect added, if it added one; the overflow is set to 'unset' in any case.
ModalEffectCleanup(dom) ==
  [listeners |-> dom.listeners - (IF dom.registered THEN 1 ELSE 0),
   overflow |-> "unset", registered |-> FALSE]

\* Body of the effect.
ModalEffectSetup(dom, isOpen) ==
  IF isOpen
  THEN [listeners |-> dom.listeners + 1, overflow |-> "hidden",
        registered |-> TRUE]
  ELSE [dom EXCEPT !.registered = FALSE]

ModalSnapshot ==
  [selected |-> selectedEntry, visible |-> ModalVisible,
   suppressed |-> ScrollSuppressed, listeners |-> escapeListeners,
   prevKind |-> modalLast.kind, prevSuppressed |-> modalLast.pre.suppressed]

ModalStep(kind) == [kind |-> kind, pre |-> ModalSnapshot]

ModalInit ==
  /\ gridPhase = "created"
  /\ gridEntries = <<>>
  /\ gridLoading = FALSE
  /\ selectedEntry = "none"
  /\ escapeListeners = 0
  /\ bodyOverflow = ""
  /\ effectRegistered = FALSE
  /\ modalLast = [kind |-> "init",
                  pre |-> [selected |-> "none", visible |-> FALSE,
                           suppressed |-> FALSE, listeners |-> 0,
                           prevKind |-> "init", prevSuppressed |-> FALSE]]

\* CardGrid renders and React commits: the effect of a ScreenshotModal that
\* was in the tree is cleaned up (onClose is a new function on every render
\* of CardGrid, so the effect never survives one), and the effect of a
\* ScreenshotModal that is in the tree now runs.
GridCommit(phase, ents, load, sel) ==
  LET cleaned == IF ModalMounted THEN ModalEffectCleanup(Dom) ELSE Dom
      dom == IF GridBranch(phase, ents, load)
             THEN ModalEffectSetup(cleaned, sel # "none")
             ELSE cleaned
  IN /\ gridPhase' = phase
     /\ gridEntries' = ents
     /\ gridLoading' = load
     /\ selectedEntry' = sel
     /\ escapeListeners' = dom.listeners
     /\ bodyOverflow' = dom.overflow
     /\ effectRegistered' = dom.registered

\* onClose: setSelectedEntry(null)
OnClose == GridCommit(gridPhase, gridEntries, gridLoading, "none")

\* The parent mounts CardGrid.
GridMount ==
  \E ents \in ResultLists, load \in BOOLEAN :
    /\ gridPhase \in {"created", "unmounted"}
    /\ GridCommit("mounted", ents, load, "none")
    /\ modalLast' = ModalStep("mount")
    /\ UNCHANGED outsideModal

\* The parent renders CardGrid again, with the same props or other ones.
GridRender ==
  \E ents \in ResultLists, load \in BOOLEAN :
    /\ gridPhase = "mounted"
    /\ GridCommit("mounted", ents, load, selectedEntry)
    /\ modalLast' = ModalStep("render")
    /\ UNCHANGED outsideModal

\* A card is clicked: setSelectedEntry(entry).  The cards can be clicked when
\* they are rendered and the backdrop of the modal does not cover them.
GridSelect ==
  \E i \in 1..Len(gridEntries) :
    /\ ModalMounted
    /\ ~ModalVisible
    /\ GridCommit(gridPhase, gridEntries, gridLoading, gridEntries[i])
    /\ modalLast' = ModalStep("select")
    /\ UNCHANGED outsideModal

\* The close button of the modal.
ModalCloseButton ==
  /\ ModalVisible
  /\ OnClose
  /\ modalLast' = ModalStep("closeButton")
  /\ UNCHANGED outsideModal

\* A click on the backdrop of the modal.
ModalBackdropClick ==
  /\ ModalVisible
  /\ OnClose
  /\ modalLast' = ModalStep("backdrop")
  /\ UNCHANGED outsideModal

\* A key goes down on the document: every registered handleEscape runs and
\* calls onClose if the key is Escape.
ModalKeydown ==
  \E key \in {"Escape", "a"} :
    /\ gridPhase = "mounted"
    /\ IF key = "Escape" /\ escapeListeners > 0
       THEN OnClose /\ modalLast' = ModalStep("escape")
       ELSE /\ modalLast' = ModalStep("key")
            /\ UNCHANGED <<gridPhase, gridEntries, gridLoading, selectedEntry,
                           escapeListeners, bodyOverflow, effectRegistered>>
    /\ UNCHANGED outsideModal

\* The parent unmounts CardGrid; its state goes with it.
GridUnmount ==
  /\ gridPhase = "mounted"
  /\ GridCommit("unmounted", gridEntries, gridLoading, "none")
  /\ modalLast' = ModalStep("unmount")
  /\ UNCHANGED outsideModal

ModalNext ==
  \/ GridMount
  \/ GridRender
  \/ GridSelect
  \/ ModalCloseButton
  \/ ModalBackdropClick
  \/ ModalKeydown
  \/ GridUnmount

\* ------------------------------------------------------------- api client
API_BASE == "/api"

\* The endpoint functions the controllers call, and the path each one fetches.
ApiOps == {"getEntries", "searchEntries", "getStats", "getStatus"}

Path(op) ==
  CASE op = "getEntries" -> "/entries"
    [] op = "searchEntries" -> "/search"
    [] op = "getStats" -> "/stats"
    [] op = "getStatus" -> "/status"

Url(op) == <<API_BASE, Path(op)>>

\* HTTP status codes a response may carry, on both sides of the 2xx range.
Statuses == {200, 204, 299, 300, 404, 500}

\* Response.ok
IsOk(st) == st >= 200 /\ st <= 299

\* Response bodies: a JSON text, a text that is not JSON, and no body.
Bodies == {"[1]", "{", ""}

\* Response.json(): the parsed value, or a rejection for a text that is not
\* JSON.
ParseJson(text) ==
  IF text = "[1]" THEN [ok |-> TRUE, value |-> <<1>>]
  ELSE [ok |-> FALSE, value |-> <<>>]

NoHttpResponse == [received |-> FALSE, status |-> 0, body |-> ""]
HttpResponse(st, body) == [received |-> TRUE, status |-> st, body |-> body]

\* How the promise of an invocation stands.
Pending == [kind |-> "pending", status |-> 0, value |-> <<>>]
Resolved(value) == [kind |-> "value", status |-> 0, value |-> value]
\* new Error(`HTTP error! status: ${response.status}`)
HttpError(st) == [kind |-> "httpError", status |-> st, value |-> <<>>]
ParseError == [kind |-> "parseError", status |-> 0, value |-> <<>>]
NetworkError == [kind |-> "networkError", status |-> 0, value |-> <<>>]

TransportInit == transportCalls = <<>>

\* fetchJson(url) up to the await: fetch(url) is called.
FetchJsonStart(op) ==
  [op |-> op, wire |-> <<Url(op)>>, resp |-> NoHttpResponse, outcome |-> Pending]

\* Variant: a response that is not ok makes fetchJson fetch the URL again.
FetchJsonResponse_Retries(call, st, body) ==
  IF ~IsOk(st)
  THEN [call EXCEPT !.wire = Append(@, Url(call.op)),
                    !.resp = HttpResponse(st, body)]
  ELSE [call EXCEPT !.resp = HttpResponse(st, body),
                    !.outcome = IF ParseJson(body).ok
                                THEN Resolved(ParseJson(body).value)
                                ELSE ParseError]

\* fetchJson after the await: throw on a response that is not ok, else return
\* response.json().
FetchJsonResponse(call, st, body) ==
  IF ~IsOk(st)
  THEN [call EXCEPT !.resp = HttpResponse(st, body), !.outcome = HttpError(st)]
  ELSE [call EXCEPT !.resp = HttpResponse(st, body),
                    !.outcome = IF ParseJson(body).ok
                                THEN Resolved(ParseJson(body).value)
                                ELSE ParseError]

\* fetch(url) rejects: the rejection passes through fetchJson.
FetchJsonReject(call) == [call EXCEPT !.outcome = NetworkError]

\* A controller calls an endpoint function.
TransportCall ==
  \E op \in ApiOps :
    /\ Len(transportCalls) < MaxCalls
    /\ transportCalls' = Append(transportCalls, FetchJsonStart(op))
    /\ UNCHANGED outsideTransport

\* The server answers a fetch that is outstanding.
TransportRespond ==
  \E i \in 1..Len(transportCalls), st \in Statuses, body \in Bodies :
    /\ transportCalls[i].outcome = Pending
    /\ transportCalls' =
         [transportCalls EXCEPT ![i] = FetchJsonResponse(@, st, body)]
    /\ UNCHANGED outsideTransport

\* A fetch that is outstanding fails below HTTP.
TransportNetworkFail ==
  \E i \in 1..Len(transportCalls) :
    /\ transportCalls[i].outcome = Pending
    /\ transportCalls' = [transportCalls EXCEPT ![i] = FetchJsonReject(@)]
    /\ UNCHANGED outsideTransport

TransportNext ==
  \/ TransportCall
  \/ TransportRespond
  \/ TransportNetworkFail

\* ------------------------------------------------------ useStats / StatsPage
\* Per-app capture counts a response may carry.
AppCounts == {0, 1, 3}

\* SystemStats as far as the bars read it: the counts of apps, in backend
\* order.
SystemStats == [apps : SeqsUpTo(AppCounts, MaxApps)]

NoSystemStats == [apps |-> <<>>]
NoStatsRequest == [id |-> 0, otherFailed |-> FALSE]

\* The stats cell holds null (the empty sequence) or a SystemStats (a
\* one-element sequence).
NoStats == <<>>

StatsSnapshot ==
  [stats |-> stats, loading |-> statsLoading, error |-> statsError,
   issued |-> statsIssued, pending |-> Cardinality(statsInflight)]

StatsStep(kind, req, resp) ==
  [kind |-> kind, req |-> req, resp |-> resp, pre |-> StatsSnapshot]

StatsInit ==
  /\ stats = NoStats
  /\ statsLoading = TRUE
  /\ statsError = "none"
  /\ statsPhase = "created"
  /\ statsInflight = {}
  /\ statsIssued = 0
  /\ statsRefetches = 0
  /\ statsLast = [kind |-> "init", req |-> NoStatsRequest, resp |-> NoSystemStats,
                  pre |-> [stats |-> NoStats, loading |-> TRUE, error |-> "none",
                           issued |-> 0, pending |-> 0]]

StatsRequest == [id |-> statsIssued + 1, otherFailed |-> FALSE]

\* fetchStats() up to the await.
FetchStatsStart ==
  /\ statsLoading' = TRUE
  /\ statsError' = "none"
  /\ statsIssued' = statsIssued + 1
  /\ statsInflight' = statsInflight \cup {StatsRequest}
  /\ UNCHANGED stats

\* Variant: a response is dropped when stats are already held.
FetchStatsOk_KeepsFirst(data) ==
  /\ stats' = IF stats = NoStats THEN <<data>> ELSE stats
  /\ statsLoading' = FALSE
  /\ UNCHANGED statsError

\* try branch after the await, then finally.
FetchStatsOk(data) ==
  /\ stats' = <<data>>
  /\ statsLoading' = FALSE
  /\ UNCHANGED statsError

\* catch branch, then finally.
FetchStatsFail ==
  /\ statsError' = "error"
  /\ statsLoading' = FALSE
  /\ UNCHANGED stats

\* StatsPage mounts: the effect of useStats calls fetchStats().
StatsMount ==
  /\ statsPhase = "created"
  /\ statsIssued < MaxStatsFetches
  /\ statsPhase' = "mounted"
  /\ FetchStatsStart
  /\ statsLast' = StatsStep("mount", StatsRequest, NoSystemStats)
  /\ UNCHANGED statsRefetches
  /\ UNCHANGED outsideStats

\* A consumer of the hook calls refetch().
StatsRefetch ==
  /\ statsPhase = "mounted"
  /\ statsIssued < MaxStatsFetches
  /\ FetchStatsStart
  /\ statsRefetches' = statsRefetches + 1
  /\ statsLast' = StatsStep("refetch", StatsRequest, NoSystemStats)
  /\ UNCHANGED statsPhase
  /\ UNCHANGED outsideStats

\* A getStats request resolves.
StatsSettleOk ==
  \E req \in statsInflight, data \in SystemStats :
    /\ FetchStatsOk(data)
    /\ statsInflight' = statsInflight \ {req}
    /\ statsLast' = StatsStep("statsOk", req, data)
    /\ UNCHANGED <<statsPhase, statsIssued, statsRefetches>>
    /\ UNCHANGED outsideStats

\* A getStats request rejects; the requests still in flight are marked as
\* having seen another one fail.
StatsSettleFail ==
  \E req \in statsInflight :
    /\ FetchStatsFail
    /\ statsInflight' =
         {[r EXCEPT !.otherFailed = TRUE] : r \in statsInflight \ {req}}
    /\ statsLast' = StatsStep("statsFail", req, NoSystemStats)
    /\ UNCHANGED <<statsPhase, statsIssued, statsRefetches>>
    /\ UNCHANGED outsideStats

\* StatsPage renders the bars: not loading, no error, stats held.
BarsRendered == ~statsLoading /\ statsError = "none" /\ stats # NoStats

\* stats.apps.slice(0, 10)
ShownApps(apps) ==
  SubSeq(apps, 1, IF Len(apps) < TopApps THEN Len(apps) ELSE TopApps)

\* maxCount={stats.apps[0]?.count || 1}
MaxCount(apps) ==
  IF apps # <<>> /\ apps[1] # 0 THEN apps[1] ELSE 1

\* AppBar: percentage = (count / maxCount) * 100, kept as an exact fraction.
Percentage(count, maxCount) == [num |-> count * 100, den |-> maxCount]

StatsNext ==
  \/ StatsMount
  \/ StatsRefetch
  \/ StatsSettleOk
  \/ StatsSettleFail

\* ------------------------------------------------------------ App routes
\* The routes of App that render a page; every page renders one Header.
Routes == {"timeline", "search", "graph", "entities", "stats"}

RouteSnapshot ==
  [route |-> route, instances |-> Cardinality(pollerInstances),
   timers |-> Cardinality(pollerTimers)]

RouteStep(kind) == [kind |-> kind, pre |-> RouteSnapshot]

RoutesInit ==
  /\ route = "none"
  /\ pollerInstances = {}
  /\ pollerTimers = {}
  /\ pollerCreated = 0
  /\ routeLast = [kind |-> "init",
                  pre |-> [route |-> "none", instances |-> 0, timers |-> 0]]

\* The useStatus instance of the Header of a page that mounts now.  setInterval
\* hands out a fresh id, which the closure of the effect keeps.
NewPoller(r) == [inst |-> pollerCreated + 1, route |-> r,
                 interval |-> pollerCreated + 1]

\* Variant: the cleanup of the effect does not cancel the interval.
PollerCleanup_LeaksTimer(timers, poller) == timers

\* useStatus effect: setInterval(fetchStatus, 30000)
PollerEffect(timers, poller) == timers \cup {poller.interval}

\* useStatus effect cleanup: clearInterval(interval)
PollerCleanup(timers, poller) == timers \ {poller.interval}

RECURSIVE CleanupAll(_, _)
\* The cleanups of all the instances that unmount in one commit.
CleanupAll(timers, pollers) ==
  IF pollers = {} THEN timers
  ELSE LET p == CHOOSE q \in pollers : TRUE
       IN CleanupAll(PollerCleanup(timers, p), pollers \ {p})

\* The page of route r replaces what is shown: the Header that was mounted
\* unmounts and the Header of the new page mounts, in one commit.
ShowPage(r) ==
  /\ route' = r
  /\ pollerInstances' = {NewPoller(r)}
  /\ pollerTimers' = PollerEffect(CleanupAll(pollerTimers, pollerInstances),
                                  NewPoller(r))
  /\ pollerCreated' = pollerCreated + 1

\* The app is opened on a route.
AppOpen ==
  \E r \in Routes :
    /\ route = "none"
    /\ pollerCreated < MaxMounts
    /\ ShowPage(r)
    /\ routeLast' = RouteStep("open")
    /\ UNCHANGED outsideRoutes

\* Navigation to another route.
RouteNavigate ==
  \E r \in Routes \ {route} :
    /\ route # "none"
    /\ pollerCreated < MaxMounts
    /\ ShowPage(r)
    /\ routeLast' = RouteStep("navigate")
    /\ UNCHANGED outsideRoutes

\* The page or its Header renders again (a state update, new props): the deps
\* of the effect, [fetchStatus], are stable, so the effect is left alone.
HeaderRender ==
  /\ route # "none"
  /\ routeLast' = RouteStep("render")
  /\ UNCHANGED <<route, pollerInstances, pollerTimers, pollerCreated>>
  /\ UNCHANGED outsideRoutes

\* The app is torn down: everything unmounts.
AppClose ==
  /\ route # "none"
  /\ route' = "none"
  /\ pollerInstances' = {}
  /\ pollerTimers' = CleanupAll(pollerTimers, pollerInstances)
  /\ routeLast' = RouteStep("close")
  /\ UNCHANGED pollerCreated
  /\ UNCHANGED outsideRoutes

RoutesNext ==
  \/ AppOpen
  \/ RouteNavigate
  \/ HeaderRender
  \/ AppClose

\* ---------------------------------------------------------- specifications
\* Every view starts from its useState initial values.
Init ==
  /\ FeedInit /\ SearchInit /\ StatusInit /\ ModalInit /\ TransportInit
  /\ StatsInit /\ RoutesInit

\* The timeline page alone.
SpecFeed == Init /\ [][FeedNext]_vars

\* The search page alone.
SpecSearch == Init /\ [][SearchNext]_vars

\* Header with its status poller.
SpecStatus == Init /\ [][StatusNext]_vars

\* A card grid with its modal.
SpecModal == Init /\ [][ModalNext]_vars

\* The api client under any sequence of calls and answers.
SpecTransport == Init /\ [][TransportNext]_vars

\* The stats page.
SpecStats == Init /\ [][StatsNext]_vars

\* The routed app with the pollers of its headers.
SpecRoutes == Init /\ [][RoutesNext]_vars

\* ------------------------------------------------------ entry feed: claims
FeedTriggers == {"scrollNear", "scrollFar", "click"}

\* The last step changed nothing of the feed and issued no request.
FeedUntouched ==
  /\ entries = feedLast.pre.entries
  /\ page = feedLast.pre.page
  /\ hasMore = feedLast.pre.hasMore
  /\ loading = feedLast.pre.loading
  /\ loadingMore = feedLast.pre.loadingMore
  /\ feedIssued = feedLast.pre.issued
  /\ feedInflight = feedLast.pre.inflight

\* The error the page's state offers its view.  TimelinePage declares five state
\* cells and none of them holds an error; the catch branch of fetchEntries logs
\* to the console and writes no state.
FeedError == "none"

\* C1: right after the page-1 fetch succeeded, entries is the response's entries
\* sequence, in response order, and hasMore is the response's has_more, whatever
\* the length of the page.
C1_LoadReplaces ==
  feedLast.kind = "loadOk" =>
    /\ entries = feedLast.resp.entries
    /\ hasMore = feedLast.resp.has_more

\* C1 witness: a load answered with a short page out of sorted order and
\* has_more set.
C1_Witness ==
  /\ feedLast.kind = "loadOk"
  /\ feedLast.resp.entries = <<"B", "A">>
  /\ feedLast.resp.has_more

\* C2: right after a loadMore fetch succeeded, entries is the entries held before
\* (at the call and at the completion alike) followed by the page in response
\* order, page is one more than when loadMore was called, and hasMore is the
\* response's has_more.
C2_LoadMoreAppends ==
  feedLast.kind = "moreOk" =>
    LET prior == feedLast.pre.entries
        new == feedLast.resp.entries
    IN /\ Len(entries) = Len(prior) + Len(new)
       /\ SubSeq(entries, 1, Len(prior)) = prior
       /\ SubSeq(entries, Len(prior) + 1, Len(entries)) = new
       /\ prior = feedLast.req.entriesAtCall
       /\ page = feedLast.req.pageAtCall + 1
       /\ hasMore = feedLast.resp.has_more

\* C2 witness: a non-empty page appended to a different non-empty list.
C2_Witness ==
  /\ feedLast.kind = "moreOk"
  /\ feedLast.pre.entries = <<"A", "B">>
  /\ feedLast.resp.entries = <<"B">>
  /\ page = 2

\* C3: a scroll event or a click of Load More that arrives while loadingMore is
\* set issues no request and leaves entries, page, hasMore and loadingMore as
\* they were.
C3_NoOpWhileLoadingMore ==
  (feedLast.kind \in FeedTriggers /\ feedLast.pre.loadingMore) => FeedUntouched

\* C3 witness: a scroll event near the bottom, with more pages announced, that
\* found the next page still in flight.
C3_Witness ==
  /\ feedLast.kind = "scrollNear"
  /\ feedLast.pre.loadingMore
  /\ feedLast.pre.hasMore
  /\ \E r \in feedInflight : r.append

\* C4: a trigger that arrives while hasMore is false issues no request and
\* changes nothing; and once a response with has_more = false has been applied,
\* the number of requests issued never grows again.
C4_NoOpWhenExhausted ==
  /\ (feedLast.kind \in FeedTriggers /\ ~feedLast.pre.hasMore) => FeedUntouched
  /\ feedEndedAt # -1 => feedIssued = feedEndedAt

\* C4 witness: the second page came with has_more = false and a scroll event
\* near the bottom followed.
C4_Witness ==
  /\ feedLast.kind = "scrollNear"
  /\ ~feedLast.pre.hasMore
  /\ feedEndedAt = 2
  /\ Len(entries) > 0

\* C5: at most one loadMore fetch is in flight, no page number is in flight
\* twice, and the fetch that settles is the oldest one outstanding.
C5_OneLoadMoreInFlight ==
  /\ Cardinality({r \in feedInflight : r.append}) <= 1
  /\ \A r1, r2 \in feedInflight : r1.pageNum = r2.pageNum => r1 = r2
  /\ feedLast.kind \in {"moreOk", "moreFail"} =>
        \A r \in feedLast.pre.inflight : feedLast.req.id <= r.id

\* C5 witness: page 3 is in flight after page 2 was applied.
C5_Witness ==
  /\ feedLast.kind = "click"
  /\ \E r \in feedInflight : r.append /\ r.pageNum = 3
  /\ Len(entries) > 0

\* C6: right after a fetch failed, entries is the sequence held when the fetch
\* was called (and held just before the failure was handled).
C6_FailureKeepsEntries ==
  feedLast.kind \in {"loadFail", "moreFail"} =>
    /\ entries = feedLast.req.entriesAtCall
    /\ entries = feedLast.pre.entries

\* C6 witness: a loadMore failed with two entries accumulated.
C6_Witness ==
  /\ feedLast.kind = "moreFail"
  /\ entries = <<"A", "B">>

\* C7 (as claimed): right after a fetch failed, the page's state holds an error
\* for its view to render.
C7_FailureSurfacesError ==
  feedLast.kind \in {"loadFail", "moreFail"} => FeedError # "none"

\* ---------------------------------------------------------- search: claims
\* q is empty or consists of white space only.
WhitespaceOnly(str) == \A i \in 1..Len(str) : str[i] = " "

\* The last step issued no search request.
NoSearchIssued ==
  /\ searchIssued = searchLast.pre.issued
  /\ \A r \in searchInflight : r.id <= searchLast.pre.issued

\* C8 (as claimed): a search(q) with blank q, and a submission of the form with
\* a blank input, issue no request and end with results = [] and query = "".
C8_BlankSearchOrSubmitEmpties ==
  \/ searchLast.kind = "search" /\ WhitespaceOnly(searchLast.q)
  \/ searchLast.kind = "submit" /\ WhitespaceOnly(searchLast.pre.inputValue)
  => NoSearchIssued /\ results = <<>> /\ query = <<>>

\* C8 (amended): a search(q) with blank q issues no request and ends with
\* results = [] and query = ""; a submission of the form with a blank input does
\* not call search: it issues no request and leaves results, query, error and
\* loading as they were.
C8_BlankSearchEmpties ==
  /\ (searchLast.kind = "search" /\ WhitespaceOnly(searchLast.q)) =>
        NoSearchIssued /\ results = <<>> /\ query = <<>>
  /\ (searchLast.kind = "submit" /\ WhitespaceOnly(searchLast.pre.inputValue)) =>
        /\ NoSearchIssued
        /\ results = searchLast.pre.results
        /\ query = searchLast.pre.query
        /\ error = searchLast.pre.error
        /\ searchLoading = searchLast.pre.loading

\* C8 witness: search("  ") was called while results of an earlier query were
\* shown.
C8_Witness ==
  /\ searchLast.kind = "search"
  /\ searchLast.q = <<" ", " ">>
  /\ searchLast.pre.results # <<>>
  /\ searchLast.pre.query # <<>>

\* C8 second witness case, kept as a reachability fact: a blank form was
\* submitted while results were shown.
C8_BlankSubmitReached ==
  /\ searchLast.kind = "submit"
  /\ searchLast.pre.inputValue = <<" ">>
  /\ searchLast.pre.results # <<>>

\* C9 (as claimed): after a search(q) with blank q the state is the one clear()
\* produces from the same prior state: results = [], query = "", error = none,
\* loading untouched.
C9_BlankSearchIsClear ==
  (searchLast.kind = "search" /\ WhitespaceOnly(searchLast.q)) =>
    /\ results = <<>>
    /\ query = <<>>
    /\ error = "none"
    /\ searchLoading = searchLast.pre.loading

C12_ClearResets ==
  searchLast.kind = "clear" =>
    /\ results = <<>>
    /\ query = <<>>
    /\ error = "none"

\* C12 witness: clear() ran with the error of a failed search set and another
\* search still in flight.
C12_Witness ==
  /\ searchLast.kind = "clear"
  /\ searchLast.pre.error = "error"
  /\ searchLast.pre.query # <<>>
  /\ searchInflight # {}

\* C13: a search() call removes no request from those in flight, and every
\* response that resolves replaces results (a failure empties them), whichever
\* search was issued last: the last to resolve decides what is shown.
C13_LastResponseWins ==
  /\ searchLast.kind \in {"search", "submit"} =>
        Cardinality(searchInflight) >= searchLast.pre.pending
  /\ searchLast.kind = "searchOk" => results = searchLast.resp.results
  /\ searchLast.kind = "searchFail" => results = <<>>

\* C13 witness: two searches overlapped, the second resolved first, and the
\* response of the first, resolving last, is shown under the second's query.
C13_Witness ==
  /\ searchLast.kind = "searchOk"
  /\ searchLast.req.id = 1
  /\ searchIssued = 2
  /\ searchInflight = {}
  /\ searchLast.pre.results = <<"B", "A">>
  /\ results = <<"A">>
  /\ query = <<"b">>
  /\ searchLast.req.q = <<"a">>

\* --------------------------------------------------- status poller: claims
\* C14: right after a status fetch failed (issued on mount, by the interval or
\* by refetch), status is what it was before, no setter other than setLoading
\* was called (the hook holds no error), and the interval is as it was: while
\* the header is mounted it stays registered with its next tick still ahead.
C14_FailedStatusFetchIsSilent ==
  statusLast.kind = "fetchFail" =>
    /\ status = statusLast.pre.status
    /\ statusLast.writes \subseteq {"setLoading"}
    /\ statusTimer = statusLast.pre.timer
    /\ statusLast.pre.phase = "mounted" =>
          /\ statusTimer
          /\ nextTick = mountedAt + (statusTicks + 1) * PollInterval
          /\ now <= nextTick

\* C14 witness: the fetch of an interval tick failed while a status was held,
\* and the interval is still registered.
C14_Witness ==
  /\ statusLast.kind = "fetchFail"
  /\ statusLast.req.origin = "tick"
  /\ statusLast.pre.status = <<[recording |-> TRUE, paused |-> FALSE]>>
  /\ status = statusLast.pre.status
  /\ statusPhase = "mounted"
  /\ statusTimer

\* C15: mounting issues a fetch at once; while mounted the interval is
\* registered and has issued exactly one fetch for every 30 s elapsed since the
\* mount (the tick due at this instant aside); a tick fetch is only ever issued
\* while mounted, and after the unmount the interval is gone.
C15_PollsExactlyWhileMounted ==
  /\ statusLast.kind = "mount" =>
        /\ statusLast.req.origin = "mount"
        /\ statusIssued = statusLast.pre.issued + 1
        /\ statusTicks = 0
  /\ statusPhase = "mounted" =>
        /\ statusTimer
        /\ nextTick = mountedAt + (statusTicks + 1) * PollInterval
        /\ now <= nextTick
  /\ now >= mountedAt + statusTicks * PollInterval
  /\ statusLast.kind = "tick" =>
        /\ statusLast.pre.phase = "mounted"
        /\ statusLast.pre.timer
        /\ statusIssued = statusLast.pre.issued + 1
  /\ statusPhase = "unmounted" => ~statusTimer
  /\ statusPhase = "created" => ~statusTimer /\ statusIssued = 0

\* C15 witness: the header was mounted, the first tick fetched, the header was
\* unmounted before the second tick, and the time of the second tick has come
\* without a fetch.
C15_Witness ==
  /\ statusPhase = "unmounted"
  /\ statusTicks = 1
  /\ statusIssued = 2
  /\ now >= mountedAt + 2 * PollInterval

\* C19: a completion that runs after the unmount of its component calls no
\* state setter.
C19_LateCompletionWritesNothing ==
  (/\ statusLast.kind \in {"fetchOk", "fetchFail"}
   /\ statusLast.pre.phase = "unmounted") =>
    statusLast.writes = {}

\* ----------------------------------------------------------- modal: claims
ModalDismissals == {"closeButton", "backdrop", "escape", "unmount"}

\* C16: while the grid is mounted the modal is visible exactly when an entry
\* is selected, whatever the entries and the loading flag of the grid are.
C16_VisibleIffSelected ==
  gridPhase = "mounted" => (ModalVisible <=> selectedEntry # "none")

C18_OneEscapeListenerWhileOpen ==
  /\ escapeListeners <= 1
  /\ escapeListeners = 1 <=> ModalVisible

\* C18 witness: the modal was opened again right after it had been closed, it
\* is open, and one listener is registered.
C18_Witness ==
  /\ modalLast.kind = "select"
  /\ modalLast.pre.prevKind \in ModalDismissals
  /\ ModalVisible
  /\ escapeListeners = 1

\* ------------------------------------------------------- transport: claims
\* C20: every invocation of an endpoint function has passed exactly one URL to
\* fetch, settled or not, failed or not; and an invocation whose response had
\* a status outside 200..299 failed with an error that carries that status and
\* no value, whatever the body was.
C20_OneCallAndHardFailure ==
  \A i \in 1..Len(transportCalls) :
    LET call == transportCalls[i] IN
      /\ Len(call.wire) = 1
      /\ (call.resp.received /\ (call.resp.status < 200 \/ call.resp.status > 299)) =>
            /\ call.outcome.kind = "httpError"
            /\ call.outcome.status = call.resp.status
            /\ call.outcome.value = <<>>

\* C20 witness: an invocation received a 404 with a well-formed JSON body and
\* failed with the status; a later invocation of the same endpoint is under
\* way with one fetch of its own.
C20_Witness ==
  /\ Len(transportCalls) = 2
  /\ transportCalls[1].resp = [received |-> TRUE, status |-> 404, body |-> "[1]"]
  /\ transportCalls[1].outcome = [kind |-> "httpError", status |-> 404, value |-> <<>>]
  /\ transportCalls[1].wire = <<transportCalls[2].wire[1]>>
  /\ transportCalls[2].outcome.kind = "pending"

\* ---------------------------------------------------- status bucket: claims
\* C21: the header shows exactly one of active, paused, inactive: inactive for
\* a status of none; otherwise active when recording is true (paused or not),
\* paused when only paused is true, inactive when neither is.
C21_BucketRecordingFirst ==
  /\ HeaderBucket \in {"active", "paused", "inactive"}
  /\ status = <<>> => HeaderBucket = "inactive"
  /\ status # <<>> =>
        /\ status[1].recording => HeaderBucket = "active"
        /\ (~status[1].recording /\ status[1].paused) => HeaderBucket = "paused"
        /\ (~status[1].recording /\ ~status[1].paused) => HeaderBucket = "inactive"

\* C21 witness: a status with recording and paused both true was fetched and
\* the header shows active.
C21_Witness ==
  /\ statusLast.kind = "fetchOk"
  /\ status = <<[recording |-> TRUE, paused |-> TRUE]>>
  /\ HeaderBucket = "active"

\* ----------------------------------------------------------- stats: claims
\* The largest count of a list, at least 1.
LargestCount(apps) ==
  CHOOSE m \in AppCounts \cup {1} :
    /\ m >= 1
    /\ \A i \in 1..Len(apps) : apps[i] <= m
    /\ m = 1 \/ \E i \in 1..Len(apps) : apps[i] = m

\* C22: whenever the bars are rendered, the denominator of every bar is the
\* largest count of the apps list, at least 1, and no bar is wider than 100%.
C22_DenominatorIsMaximum ==
  BarsRendered =>
    LET apps == stats[1].apps IN
      /\ MaxCount(apps) = LargestCount(apps)
      /\ MaxCount(apps) >= 1
      /\ \A i \in 1..Len(ShownApps(apps)) :
            LET pct == Percentage(ShownApps(apps)[i], MaxCount(apps))
            IN pct.num <= 100 * pct.den

\* C23 (as claimed): mounting issues exactly one stats request and every later
\* one comes from a refetch() call; right after a fetchStats settled, loading
\* is false, and stats is the payload with error = none if it succeeded, error
\* is set if it failed.
C23_SettledStatsAreClean ==
  /\ statsPhase = "created" => statsIssued = 0
  /\ statsPhase = "mounted" => statsIssued = 1 + statsRefetches
  /\ statsLast.kind \in {"statsOk", "statsFail"} => ~statsLoading
  /\ statsLast.kind = "statsOk" =>
        stats = <<statsLast.resp>> /\ statsError = "none"
  /\ statsLast.kind = "statsFail" => statsError # "none"

\* C23 (amended): as above, but after a success error = none only if no other
\* fetchStats failed while this one was in flight; error is as it was before
\* the success in every case.
C23_SettledStats ==
  /\ statsPhase = "created" => statsIssued = 0
  /\ statsPhase = "mounted" => statsIssued = 1 + statsRefetches
  /\ statsLast.kind \in {"statsOk", "statsFail"} => ~statsLoading
  /\ statsLast.kind = "statsOk" =>
        /\ stats = <<statsLast.resp>>
        /\ statsError = statsLast.pre.error
        /\ ~statsLast.req.otherFailed => statsError = "none"
  /\ statsLast.kind = "statsFail" => statsError # "none"

\* C23 witness: a refetch succeeded and its payload took the place of the
\* stats of the mount fetch.
C23_Witness ==
  /\ statsLast.kind = "statsOk"
  /\ statsLast.pre.stats = <<[apps |-> <<1>>]>>
  /\ stats = <<[apps |-> <<3, 1>>]>>
  /\ statsError = "none"
  /\ statsIssued = 2
  /\ statsRefetches = 1

\* ------------------------------------------- entry feed: page and flags
\* C24: a loadMore trigger leaves page as it was, and right after the request
\* of a loadMore failed page has the value it had before that loadMore was
\* called.
C24_PageCountsSuccessfulLoads ==
  /\ feedLast.kind \in FeedTriggers => page = feedLast.pre.page
  /\ feedLast.kind = "moreFail" => page = feedLast.req.pageAtCall

\* C25: once the page is mounted, loading is true exactly while the first-page
\* fetch is outstanding and loadingMore is true exactly while a fetch of a
\* later page is outstanding; in particular no settlement leaves a flag down
\* while its fetch is in flight, or up while it is not.
C25_FlagsTrackFetches ==
  feedPhase = "mounted" =>
    /\ loading <=> (\E r \in feedInflight : ~r.append)
    /\ loadingMore <=> (\E r \in feedInflight : r.append)

\* C25 witness: the second loadMore is outstanding after the first one has
\* settled: loadingMore is up again and loading is down.
C25_Witness ==
  /\ feedLast.kind = "click"
  /\ feedIssued = 3
  /\ \E r \in feedInflight : r.append
  /\ loadingMore /\ ~loading
  /\ entries = <<"A">>
  /\ page = 3

\* ---------------------------------------------------------- routes: claims
\* C26: the registered polling intervals are exactly those held by the mounted
\* useStatus instances, one for each instance: as many timers as instances,
\* no timer without its instance, no two instances with the same timer.
C26_OneTimerPerMountedPoller ==
  /\ Cardinality(pollerTimers) = Cardinality(pollerInstances)
  /\ pollerTimers = {p.interval : p \in pollerInstances}
  /\ \A p, q \in pollerInstances : p.interval = q.interval => p = q

\* C26 witness: after the app was opened, closed, opened again and navigated,
\* the fourth Header is mounted and owns the only timer.
C26_Witness ==
  /\ routeLast.kind = "navigate"
  /\ pollerCreated = 4
  /\ route = "stats"
  /\ Cardinality(pollerInstances) = 1
  /\ pollerTimers = {4}

\* ------------------------------------------------- search: state invariants
\* C27: in every state an empty query goes with empty results.
C27_NoQueryNoResults ==
  query = <<>> => results = <<>>

\* C28: right after a response was applied that left no request outstanding
\* and no error, with a query shown, the results shown are those returned for
\* that query: the request that was answered is one for the current query.
C28_ResultsBelongToQuery ==
  (/\ searchLast.kind = "searchOk"
   /\ searchInflight = {}
   /\ error = "none"
   /\ query # <<>>) =>
    query = searchLast.req.q

\* C29: in every state loading is true exactly when a search request is
\* outstanding.
C29_LoadingIffOutstanding ==
  searchLoading <=> searchInflight # {}

\* ------------------------------------------------------ modal: selection
\* C30: while the grid is mounted, a selected entry is one of the entries the
\* grid was given.
C30_SelectionInResultSet ==
  (gridPhase = "mounted" /\ selectedEntry # "none") =>
    \E i \in 1..Len(gridEntries) : gridEntries[i] = selectedEntry

====
